---- MODULE Spec2Model ----
(***************************************************************************)
(* Tune Shifter content script (src/unnamed/part_003): media registry,     *)
(* per-site settings, audio graphs and the command handler, as a state     *)
(* machine.  One action per macrotask of the page's event loop: a handler  *)
(* runs with every microtask it queues, and suspends only where the code   *)
(* awaits the store, the offline render, AudioContext.resume or a timer.   *)
(***************************************************************************)
EXTENDS Integers, Sequences, FiniteSets, TLC

\* ---------------------------------------------------------------- bounds
MaxElems == 2
MaxId == 3
\* Numbers are fixed point: the value 1.0 is Res units.
Res == 2
MaxStoreQ == 3
MaxBacklog == 2
MaxPending == 2
MaxTimers == 2
MaxPolls == 2
MaxInstances == 2

Elems == 1..MaxElems
Ids == 1..MaxId
NumInputs == (0 - 1)..(Res + 1)

\* ------------------------------------------------------ fixed-point maths
\* Gains are fixed point with unit Scale.
Scale == 10 ^ 4
PiScaled == 31416

Max(a, b) == IF a > b THEN a ELSE b
Min(a, b) == IF a < b THEN a ELSE b
Abs(a) == IF a < 0 THEN 0 - a ELSE a

\* (wetMix * Math.PI) / 2 for wetMix = m / Res
Angle(m) == (m * PiScaled) \div (2 * Res)

\* Power series of cos and sin at x (unit Scale), seven terms each.
RECURSIVE Series(_, _, _, _)
Series(term, x2, k, n) ==
    IF n = 0 THEN 0
    ELSE term + Series(0 - ((term * x2) \div (Scale * k * (k + 1))), x2, k + 2, n - 1)

MathCos(x) == Series(Scale, (x * x) \div Scale, 1, 7)
MathSin(x) == Series(x, (x * x) \div Scale, 2, 7)

\* ------------------------------------------------------------- settings
PersistedFields == {"volume", "playbackRate", "preservesPitch", "muted", "reverb"}
AllFields == PersistedFields \cup {"reverbEnabled"}

DEFAULT_SETTINGS ==
    [volume |-> Res, playbackRate |-> Res, preservesPitch |-> TRUE,
     muted |-> FALSE, reverb |-> 0, reverbEnabled |-> FALSE]

getCurrentDomain(h) == IF h = "" THEN "default" ELSE h

\* A stored value: kind is "absent" (no record), "object", or "other" (a value
\* that is falsy or not an object); has is the set of fields an object carries.
StoredAbsent == [kind |-> "absent", has |-> {}, val |-> DEFAULT_SETTINGS]

\* The spread with the defaults last: { ...siteSettings, ...DEFAULT_SETTINGS }
MergeDefaultsLast(rec) == DEFAULT_SETTINGS

\* { ...DEFAULT_SETTINGS, ...siteSettings, reverbEnabled: false }
MergeStored(rec) ==
    [f \in AllFields |->
        IF f = "reverbEnabled" THEN FALSE
        ELSE IF f \in rec.has THEN rec.val[f] ELSE DEFAULT_SETTINGS[f]]

\* A load that takes the stored record whether or not the read succeeded
LoadedSettingsUnchecked(rec, ok) ==
    IF rec.kind = "object" THEN MergeStored(rec) ELSE DEFAULT_SETTINGS

\* loadSettings, the assignment made once the store has answered
LoadedSettings(rec, ok) ==
    IF ok /\ rec.kind = "object" THEN MergeStored(rec) ELSE DEFAULT_SETTINGS

\* The whole in-memory record handed to the store
SettingsToSaveAll(s) == [kind |-> "object", has |-> AllFields, val |-> s]

\* saveSettings, the record handed to the store
SettingsToSave(s) ==
    [kind |-> "object", has |-> PersistedFields,
     val |-> [f \in AllFields |->
                 IF f \in PersistedFields THEN s[f] ELSE DEFAULT_SETTINGS[f]]]

\* The value taken as it comes
NoClamp(v) == v

\* Math.max(0, Math.min(1, value))
Clamp01(v) == Max(0, Min(Res, v))

\* A linear crossfade instead of the equal-power one
LinearTargets(m) == [dry |-> Scale - ((m * Scale) \div Res), wet |-> (m * Scale) \div Res]

\* dry and wet gain targets of updateReverbMix
EqualPowerTargets(m) == [dry |-> MathCos(Angle(m)), wet |-> MathSin(Angle(m))]
\* dry and wet gain targets of the disable fade
\* A teardown that leaves the gains where they are set for full reverb
FadeSkipped == [dry |-> 0, wet |-> Scale]

FadeTargets == [dry |-> Scale, wet |-> 0]

\* ---------------------------------------------------------------- state
VARIABLES
    hostname,            \* window.location.hostname
    store,               \* chrome.storage.local: storage key -> stored value
    exists,              \* media elements the page has created
    inDoc,               \* elements attached to the document
    hasSrc,              \* elements with a src or currentSrc
    blocked,             \* elements whose createMediaElementSource throws
    elProps,             \* element -> volume, playbackRate, preservesPitch, muted
    tap,                 \* element -> "none" | "connected" | "disconnected"
    listeners,           \* once-only play listeners: <<element, captured id>>
    started,             \* the content script has run its top level
    currentSettings,
    settingsLoaded,
    audioContext,        \* "none" | "suspended" | "running"
    impulseResponseBuffer, \* TRUE once the offline render has delivered
    renders,             \* number of createImpulseResponse calls
    mediaRegistry,       \* id -> element
    nextId,
    audioGraphRegistry,  \* id -> graph
    timers,              \* pending teardown timers, in firing order
    pending,             \* graph constructions suspended at an await
    storeQ,              \* store calls in flight, in call order
    resp,                \* the response being sent, if any
    script,              \* the commands a scripted popup user has yet to send
    instances,           \* content-script instances running in the page
    polls                \* probes of the tab in flight, from the popup and the background

vars == <<hostname, store, exists, inDoc, hasSrc, blocked, elProps, tap, listeners,
          started, currentSettings, settingsLoaded, audioContext,
          impulseResponseBuffer, renders, mediaRegistry, nextId,
          audioGraphRegistry, timers, pending, storeQ, resp, script, instances, polls>>

\* Element defaults of HTMLMediaElement
DefaultProps == [volume |-> Res, playbackRate |-> Res, preservesPitch |-> TRUE, muted |-> FALSE]

NoReq == [action |-> "none", id |-> 0, value |-> 0, flag |-> FALSE]
NoResp == [req |-> NoReq, result |-> "none", media |-> <<>>]

StorageKey(h) == getCurrentDomain(h)

\* The script's mutable state as one record, so that a handler is a function of it.
\* threw: the running handler has thrown; micro: graph constructions whose
\* continuation is a microtask of the running macrotask.
Pack ==
    [settings |-> currentSettings, loaded |-> settingsLoaded, ctx |-> audioContext,
     ir |-> impulseResponseBuffer, renders |-> renders, reg |-> mediaRegistry,
     nextId |-> nextId, graphs |-> audioGraphRegistry, timers |-> timers,
     pending |-> pending, storeQ |-> storeQ, props |-> elProps, tap |-> tap,
     listeners |-> listeners, resp |-> resp, threw |-> FALSE, micro |-> <<>>]

Unpack(st) ==
    /\ currentSettings' = st.settings
    /\ settingsLoaded' = st.loaded
    /\ audioContext' = st.ctx
    /\ impulseResponseBuffer' = st.ir
    /\ renders' = st.renders
    /\ mediaRegistry' = st.reg
    /\ nextId' = st.nextId
    /\ audioGraphRegistry' = st.graphs
    /\ timers' = st.timers
    /\ pending' = st.pending
    /\ storeQ' = st.storeQ
    /\ elProps' = st.props
    /\ tap' = st.tap
    /\ listeners' = st.listeners
    /\ resp' = st.resp

\* The bounds every handler's result must respect.
WithinBounds(st) ==
    /\ st.nextId <= MaxId + 1
    /\ Len(st.timers) <= MaxTimers
    /\ Len(st.pending) <= MaxPending
    /\ Len(st.storeQ) <= MaxStoreQ

\* ------------------------------------------------------- media registry
\* getMediaId, the lookup: the id registered for el, or 0
IdOf(reg, el) ==
    IF \E id \in DOMAIN reg : reg[id] = el
    THEN CHOOSE id \in DOMAIN reg :
            reg[id] = el /\ \A j \in DOMAIN reg : reg[j] = el => id <= j
    ELSE 0

\* getMediaId without the lookup: every call allocates
getMediaIdNoLookup(st, el) ==
    [st EXCEPT !.reg = (st.nextId :> el) @@ st.reg, !.nextId = st.nextId + 1]

\* getMediaId handing out the lowest id the registry does not hold
getMediaIdLowestFree(st, el) ==
    IF IdOf(st.reg, el) # 0 THEN st
    ELSE LET free == CHOOSE i \in 1..(MaxId + 1) :
                        i \notin DOMAIN st.reg /\ \A j \in 1..(i - 1) : j \in DOMAIN st.reg
         IN [st EXCEPT !.reg = (free :> el) @@ st.reg, !.nextId = st.nextId + 1]

\* getMediaId, the state it leaves: el registered under nextId++ when it was not
getMediaId(st, el) ==
    IF IdOf(st.reg, el) # 0 THEN st
    ELSE [st EXCEPT !.reg = (st.nextId :> el) @@ st.reg, !.nextId = st.nextId + 1]

Without(f, ks) == [k \in (DOMAIN f) \ ks |-> f[k]]

\* Pruning every detached element, with or without a source
PrunedIdsDetached(reg) == {id \in DOMAIN reg : reg[id] \notin inDoc}

\* pruneRegistry: the ids whose element is detached and has no source
PrunedIds(reg) == {id \in DOMAIN reg : reg[id] \notin inDoc /\ reg[id] \notin hasSrc}

pruneRegistry(st) ==
    [st EXCEPT !.reg = Without(st.reg, PrunedIds(st.reg)),
               !.graphs = Without(st.graphs, PrunedIds(st.reg))]

\* ---------------------------------------------------------- audio graph
\* The playback rates the element accepts; another value makes the setter throw.
RateAccepted(v) == v >= 0
\* The volumes the element accepts; another value makes the setter throw.
VolumeAccepted(v) == v >= 0 /\ v <= Res

ApplyCont == [kind |-> "apply", req |-> NoReq]
ToggleCont(req) == [kind |-> "toggle", req |-> req]

Construction(id, el, stage, cont) == [id |-> id, el |-> el, stage |-> stage, cont |-> cont]

\* A context made anew by every call
ContextNeverKept(st) == FALSE

\* initAudioContext, `if (audioContext) return audioContext`
ContextKept(st) == st.ctx # "none"

\* A failed attempt that marks the element as unusable
FailedAttemptRemembered(st, id, el, cont) ==
    [st EXCEPT !.tap[el] = "disconnected",
               !.micro = Append(@, Construction(id, el, "settled", cont))]

\* createAudioGraph's catch: return null, nothing is recorded
FailedAttempt(st, id, el, cont) ==
    [st EXCEPT !.micro = Append(@, Construction(id, el, "settled", cont))]

\* createAudioGraph up to its first await.  ch is the outcome of new AudioContext():
\* "none" when the constructor throws, else the state the context starts in.
createAudioGraph(st, id, el, cont, ch) ==
    IF ~st.settings.reverbEnabled \/ id \in DOMAIN st.graphs
    THEN [st EXCEPT !.micro = Append(@, Construction(id, el, "settled", cont))]
    ELSE IF ContextKept(st)
    THEN [st EXCEPT !.micro = Append(@, Construction(id, el, "postinit", cont))]
    ELSE IF ch = "none"
    THEN FailedAttempt(st, id, el, cont)
    ELSE [st EXCEPT !.ctx = ch, !.renders = @ + 1,
                    !.pending = Append(@, Construction(id, el, "init", cont))]

\* createMediaElementSource succeeding for a blocked element too
BuildGraphUnblocked(st, id, el) ==
    IF st.tap[el] # "none" THEN st
    ELSE [st EXCEPT !.tap[el] = "connected",
                    !.graphs = (id :> [el |-> el, reverbMix |-> 0, dry |-> Scale,
                                       wet |-> 0, buf |-> st.ir]) @@ st.graphs]

\* createMediaElementSource succeeding for an element that has a source node
BuildGraphAgain(st, id, el) ==
    IF el \in blocked THEN st
    ELSE [st EXCEPT !.tap[el] = "connected",
                    !.graphs = (id :> [el |-> el, reverbMix |-> 0, dry |-> Scale,
                                       wet |-> 0, buf |-> st.ir]) @@ st.graphs]

\* createAudioGraph from createMediaElementSource on.  The call throws for a
\* blocked element and for an element that already has a source node.
BuildGraph(st, id, el) ==
    IF el \in blocked \/ st.tap[el] # "none" THEN st
    ELSE [st EXCEPT !.tap[el] = "connected",
                    !.graphs = (id :> [el |-> el, reverbMix |-> 0, dry |-> Scale,
                                       wet |-> 0, buf |-> st.ir]) @@ st.graphs]

updateReverbMix(st, id, wetMix) ==
    IF id \notin DOMAIN st.graphs \/ st.ctx = "none" THEN st
    ELSE [st EXCEPT !.graphs[id].dry = EqualPowerTargets(wetMix).dry,
                    !.graphs[id].wet = EqualPowerTargets(wetMix).wet,
                    !.graphs[id].reverbMix = wetMix]

\* saveSettings up to its await: the store call, answered to req when it settles
saveSettings(st, req) ==
    [st EXCEPT !.storeQ = Append(@, [op |-> "set", key |-> StorageKey(hostname),
                                     rec |-> SettingsToSave(st.settings), req |-> req])]

\* loadSettings up to its await
loadSettings(st, req) ==
    [st EXCEPT !.storeQ = Append(@, [op |-> "get", key |-> StorageKey(hostname),
                                     rec |-> StoredAbsent, req |-> req])]

\* The first microtask of each construction begun in this macrotask: after
\* await initAudioContext(), suspend on ctx.resume() or build the graph.
RECURSIVE AfterInit(_, _)
AfterInit(st, i) ==
    IF i > Len(st.micro) THEN st
    ELSE LET c == st.micro[i]
         IN IF c.stage # "postinit" THEN AfterInit(st, i + 1)
            ELSE IF st.ctx = "suspended"
            THEN AfterInit([st EXCEPT !.micro[i].stage = "away",
                                      !.pending = Append(@, [c EXCEPT !.stage = "resume"])],
                           i + 1)
            ELSE AfterInit([BuildGraph(st, c.id, c.el) EXCEPT !.micro[i].stage = "settled"],
                           i + 1)

\* What follows a settled construction: updateReverbMix, and for toggleReverb
\* the rest of applyChange.
Settle(st, c) ==
    LET st1 == updateReverbMix(st, c.id, st.settings.reverb)
    IN IF c.cont.kind = "toggle" THEN saveSettings(st1, c.cont.req) ELSE st1

RECURSIVE AfterSettled(_, _)
AfterSettled(st, i) ==
    IF i > Len(st.micro) THEN [st EXCEPT !.micro = <<>>]
    ELSE IF st.micro[i].stage = "settled"
    THEN AfterSettled(Settle(st, st.micro[i]), i + 1)
    ELSE AfterSettled(st, i + 1)

\* Every microtask of the running macrotask.
DrainMicro(st) == AfterSettled(AfterInit(st, 1), 1)

\* An element left as it is
SetPropsSkipped(p, s) == [props |-> p, threw |-> FALSE]

\* applySettingsToElement
SetProps(p, s) ==
    IF ~VolumeAccepted(s.volume) THEN [props |-> p, threw |-> TRUE]
    ELSE IF ~RateAccepted(s.playbackRate)
    THEN [props |-> [p EXCEPT !.volume = s.volume], threw |-> TRUE]
    ELSE [props |-> [volume |-> s.volume, playbackRate |-> s.playbackRate,
                     preservesPitch |-> s.preservesPitch, muted |-> s.muted],
          threw |-> FALSE]

applySettingsToElement(st, el, id, ch) ==
    LET r == SetProps(st.props[el], st.settings)
        st1 == [st EXCEPT !.props[el] = r.props]
    IN IF r.threw THEN [st1 EXCEPT !.threw = TRUE]
       ELSE IF st.settings.reverbEnabled THEN createAudioGraph(st1, id, el, ApplyCont, ch)
       ELSE st1

\* toggleReverb
toggleReverb(st, req, ch) ==
    IF req.id \notin DOMAIN st.reg THEN saveSettings(st, req)
    ELSE IF req.flag
    THEN createAudioGraph(st, req.id, st.reg[req.id], ToggleCont(req), ch)
    ELSE IF req.id \in DOMAIN st.graphs /\ st.ctx # "none"
    THEN saveSettings(
            [st EXCEPT !.graphs[req.id].dry = FadeTargets.dry,
                       !.graphs[req.id].wet = FadeTargets.wet,
                       !.timers = Append(@, [el |-> st.graphs[req.id].el, id |-> req.id])],
            req)
    ELSE saveSettings(st, req)

\* ------------------------------------------------------------- snapshot
\* The element's own properties taken for the record
InfoFromElement(st, id) == st.props[st.reg[id]]

\* buildMediaInfo, where the four element properties of a record come from:
\* currentSettings
InfoFromSettings(st, id) == st.settings

buildMediaInfo(st, id) ==
    [id |-> id,
     volume |-> InfoFromSettings(st, id).volume,
     playbackRate |-> InfoFromSettings(st, id).playbackRate,
     preservesPitch |-> InfoFromSettings(st, id).preservesPitch,
     muted |-> InfoFromSettings(st, id).muted,
     reverb |-> IF id \in DOMAIN st.graphs THEN st.graphs[id].reverbMix
                ELSE st.settings.reverb,
     reverbEnabled |-> id \in DOMAIN st.graphs]

\* The keys of a Map taken from the newest to the oldest
RECURSIVE KeysDescending(_)
KeysDescending(ks) ==
    IF ks = {} THEN <<>>
    ELSE LET k == CHOOSE x \in ks : \A y \in ks : x >= y
         IN <<k>> \o KeysDescending(ks \ {k})

\* The keys of a Map in insertion order: ids are inserted in increasing order.
RECURSIVE KeysInOrder(_)
KeysInOrder(ks) ==
    IF ks = {} THEN <<>>
    ELSE LET k == CHOOSE x \in ks : \A y \in ks : x <= y
         IN <<k>> \o KeysInOrder(ks \ {k})

\* getAllMedia, the forEach over the discovered elements; it stops at a throw.
RECURSIVE ApplyToAll(_, _, _, _)
ApplyToAll(st, order, i, ch) ==
    IF i > Len(order) \/ st.threw THEN st
    ELSE LET st1 == getMediaId(st, order[i])
         IN ApplyToAll(applySettingsToElement(st1, order[i], IdOf(st1.reg, order[i]), ch),
                       order, i + 1, ch)

\* getAllMedia.  order is the result of discoverMediaElements.  The k-th record is
\* built k-1 microtask turns after the forEach: the first before any construction
\* begun by the forEach has continued, the second and third after the graphs are
\* built and before updateReverbMix, the later ones after it.
getAllMedia(st, req, order, ch) ==
    LET s0 == ApplyToAll(pruneRegistry(st), order, 1, ch)
        s1 == AfterInit(s0, 1)
        s2 == AfterSettled(s1, 1)
        ks == KeysInOrder(DOMAIN s0.reg)
        media == [k \in 1..Len(ks) |->
                     buildMediaInfo(IF k = 1 THEN s0 ELSE IF k <= 3 THEN s1 ELSE s2, ks[k])]
    IN IF s0.threw THEN s2
       ELSE [s2 EXCEPT !.resp = [req |-> req, result |-> "media", media |-> media]]

\* -------------------------------------------------------------- commands
Respond(st, req, result) == [st EXCEPT !.resp = [req |-> req, result |-> result, media |-> <<>>]]

\* An unknown id reported as an error
NoTargetRejected(st, req) == Respond(st, req, "error")

\* applyChange for an id the registry does not hold: it returns false without
\* touching anything, and the listener answers { ok: true }
NoTarget(st, req) == Respond(st, req, "ok")

\* A playback rate clamped like the volume
RateClamped(v) == Clamp01(v)

\* applyChange, case "playbackRate": the value goes to the element as it is and
\* is read back from it
RateTaken(v) == v

\* applyChange up to its first await; an unknown id is answered at once
applyChange(st, req, prop, ch) ==
    IF req.id \notin DOMAIN st.reg THEN NoTarget(st, req)
    ELSE LET el == st.reg[req.id]
         IN CASE prop = "volume" ->
                   saveSettings([st EXCEPT !.props[el].volume = Clamp01(req.value),
                                           !.settings.volume = Clamp01(req.value)], req)
              [] prop = "playbackRate" ->
                   IF ~RateAccepted(req.value) THEN [st EXCEPT !.threw = TRUE]
                   ELSE saveSettings([st EXCEPT !.props[el].playbackRate = RateTaken(req.value),
                                                !.settings.playbackRate = RateTaken(req.value)], req)
              [] prop = "preservesPitch" ->
                   saveSettings([st EXCEPT !.props[el].preservesPitch = req.flag,
                                           !.settings.preservesPitch = req.flag], req)
              [] prop = "muted" ->
                   saveSettings([st EXCEPT !.props[el].muted = req.flag,
                                           !.settings.muted = req.flag], req)
              [] prop = "reverb" ->
                   LET st1 == [st EXCEPT !.settings.reverb = Clamp01(req.value)]
                   IN saveSettings(IF st1.settings.reverbEnabled
                                   THEN updateReverbMix(st1, req.id, st1.settings.reverb)
                                   ELSE st1, req)
              [] prop = "reverbEnabled" ->
                   toggleReverb([st EXCEPT !.settings.reverbEnabled = req.flag], req, ch)

\* An unrecognised action answered like a recognised one
UnknownActionAccepted(st, req) == Respond(st, req, "ok")

\* The default case of the switch: { error: "Unknown action" }
UnknownAction(st, req) == Respond(st, req, "error")

\* handleAsync after settings are loaded: the switch on request.action
Dispatch(st, req, order, ch) ==
    CASE req.action = "ping" -> Respond(st, req, "pong")
      [] req.action = "getMedia" -> getAllMedia(st, req, order, ch)
      [] req.action = "setVolume" -> applyChange(st, req, "volume", ch)
      [] req.action = "setPlaybackRate" -> applyChange(st, req, "playbackRate", ch)
      [] req.action = "setPreservesPitch" -> applyChange(st, req, "preservesPitch", ch)
      [] req.action = "setMuted" -> applyChange(st, req, "muted", ch)
      [] req.action = "setReverb" -> applyChange(st, req, "reverb", ch)
      [] req.action = "setReverbEnabled" -> applyChange(st, req, "reverbEnabled", ch)
      [] OTHER -> UnknownAction(st, req)

\* handleAsync: load first when settings are not loaded
handleAsync(st, req, order, ch) ==
    IF ~st.loaded THEN loadSettings(st, req)
    ELSE DrainMicro(Dispatch(st, req, order, ch))

\* ------------------------------------------------------------- actions
\* The outcomes of new AudioContext(), when the running handler can reach it.
CtxOutcomes == IF audioContext = "none" THEN {"none", "suspended", "running"} ELSE {"running"}

\* discoverMediaElements: the attached elements in document order, which the
\* page decides.
Orders(S) == {o \in [1..Cardinality(S) -> S] : \A i, j \in 1..Cardinality(S) : o[i] = o[j] => i = j}

PageUnchanged == UNCHANGED <<instances, polls, hostname, exists, inDoc, hasSrc, blocked, started, script>>

\* The script's top level: the scan of the existing elements, then loadSettings().
TopLevel ==
    /\ ~started
    /\ started' = TRUE
    /\ \E order \in Orders(inDoc) :
          LET st == loadSettings(DrainMicro(ApplyToAll(Pack, order, 1, "none")), NoReq)
          IN WithinBounds(st) /\ Unpack(st)
    /\ UNCHANGED <<hostname, store, exists, inDoc, hasSrc, blocked, script>>

\* The script is injected into the page and runs.
Start == TopLevel /\ instances' = instances + 1 /\ UNCHANGED polls

\* ------------------------------------------- popup and background probes
ScriptUnchanged ==
    UNCHANGED <<hostname, store, exists, inDoc, hasSrc, blocked, elProps, tap, listeners,
                started, currentSettings, settingsLoaded, audioContext,
                impulseResponseBuffer, renders, mediaRegistry, nextId,
                audioGraphRegistry, timers, pending, storeQ, resp, script>>

RemoveAt(s, i) == [j \in 1..(Len(s) - 1) |-> IF j < i THEN s[j] ELSE s[j + 1]]

Probe(from, stage) == [from |-> from, stage |-> stage]

\* The popup's interval fires fetchMedia, whether or not an earlier call is
\* still running: the getMedia query is sent.
PollStarts ==
    /\ Len(polls) < MaxPolls
    /\ polls' = Append(polls, Probe("popup", "probe"))
    /\ UNCHANGED instances
    /\ ScriptUnchanged

\* The background's action.onClicked listener sends its ping.
IconClicked ==
    /\ Len(polls) < MaxPolls
    /\ polls' = Append(polls, Probe("background", "probe"))
    /\ UNCHANGED instances
    /\ ScriptUnchanged

\* A probe reaches the tab.  With no instance listening sendMessage fails, and
\* the catch calls chrome.scripting.executeScript; otherwise it is answered.
ProbeSettles(i) ==
    /\ i \in 1..Len(polls)
    /\ polls[i].stage = "probe"
    /\ polls' = IF instances = 0 THEN [polls EXCEPT ![i].stage = "inject"]
                ELSE RemoveAt(polls, i)
    /\ UNCHANGED instances
    /\ ScriptUnchanged

\* executeScript settles.  When it succeeds the script's top level has run in
\* the page: the first instance as TopLevel, a further one beside it.  The
\* popup then waits 100 ms; the background is done.
InjectionSettles(i, ok) ==
    /\ i \in 1..Len(polls)
    /\ polls[i].stage = "inject"
    /\ ok => instances < MaxInstances
    /\ instances' = IF ok THEN instances + 1 ELSE instances
    /\ polls' = IF ok /\ polls[i].from = "popup" THEN [polls EXCEPT ![i].stage = "wait"]
                ELSE RemoveAt(polls, i)
    /\ IF ok /\ ~started THEN TopLevel ELSE ScriptUnchanged

\* The popup's 100 ms are over: it sends getMedia again.
WaitEnds(i) ==
    /\ i \in 1..Len(polls)
    /\ polls[i].stage = "wait"
    /\ polls' = [polls EXCEPT ![i].stage = "retry"]
    /\ UNCHANGED instances
    /\ ScriptUnchanged

\* The second query settles, answered or not: fetchMedia returns.
RetrySettles(i) ==
    /\ i \in 1..Len(polls)
    /\ polls[i].stage = "retry"
    /\ polls' = RemoveAt(polls, i)
    /\ UNCHANGED instances
    /\ ScriptUnchanged

\* chrome.runtime.onMessage: the listener runs for a command.
Handle(req) ==
    /\ started
    /\ \E order \in Orders(inDoc), ch \in CtxOutcomes :
          LET st == handleAsync(Pack, req, order, ch)
          IN WithinBounds(st) /\ Unpack(st)
    /\ UNCHANGED <<instances, polls, hostname, store, exists, inDoc, hasSrc, blocked, started>>

\* A command arrives from the popup.
Receive(req) == Handle(req) /\ UNCHANGED script

\* The scripted user's next command arrives.
SendNext ==
    /\ script # <<>>
    /\ Handle(Head(script))
    /\ script' = Tail(script)

\* The store settles the oldest call in flight: ok is whether it succeeds.
StoreSettles(ok) ==
    /\ storeQ # <<>>
    /\ LET call == Head(storeQ)
           st0 == [Pack EXCEPT !.storeQ = Tail(storeQ)]
       IN IF call.op = "set"
          THEN /\ store' = IF ok THEN [store EXCEPT ![call.key] = call.rec] ELSE store
               /\ Unpack(Respond(st0, call.req, "ok"))
          ELSE /\ store' = store
               /\ \E order \in Orders(inDoc), ch \in CtxOutcomes :
                     LET st1 == [st0 EXCEPT !.settings = LoadedSettings(store[call.key], ok),
                                            !.loaded = TRUE]
                         st2 == IF call.req = NoReq THEN st1
                                ELSE DrainMicro(Dispatch(st1, call.req, order, ch))
                     IN WithinBounds(st2) /\ Unpack(st2)
    /\ PageUnchanged

\* offlineContext.startRendering() settles: the construction waiting in
\* initAudioContext continues.
RenderSettles(ok) ==
    /\ \E i \in 1..Len(pending) :
          /\ pending[i].stage = "init"
          /\ LET c == pending[i]
                 rest == [j \in 1..(Len(pending) - 1) |-> IF j < i THEN pending[j] ELSE pending[j + 1]]
                 st == [Pack EXCEPT !.pending = rest,
                                    !.ir = IF ok THEN TRUE ELSE @,
                                    !.micro = <<[c EXCEPT !.stage = IF ok THEN "postinit" ELSE "settled"]>>]
             IN LET st1 == DrainMicro(st) IN WithinBounds(st1) /\ Unpack(st1)
    /\ PageUnchanged
    /\ UNCHANGED store

\* The context starts running: every ctx.resume() in flight resolves, in call order.
ResumeSettles ==
    /\ \E i \in 1..Len(pending) : pending[i].stage = "resume"
    /\ LET waiting == SelectSeq(pending, LAMBDA c : c.stage = "resume")
           st == [Pack EXCEPT !.ctx = "running",
                              !.pending = SelectSeq(pending, LAMBDA c : c.stage # "resume"),
                              !.micro = [k \in 1..Len(waiting) |-> [waiting[k] EXCEPT !.stage = "postinit"]]]
       IN LET st1 == DrainMicro(st) IN WithinBounds(st1) /\ Unpack(st1)
    /\ PageUnchanged
    /\ UNCHANGED store

\* The oldest teardown timer of toggleReverb fires.
TimerFires ==
    /\ timers # <<>>
    /\ LET t == Head(timers)
       IN Unpack([Pack EXCEPT !.timers = Tail(timers),
                              !.tap[t.el] = "disconnected",
                              !.graphs = Without(@, {t.id})])
    /\ PageUnchanged
    /\ UNCHANGED store

\* The element a creation makes: element references carry no meaning, so the
\* lowest unused one stands for any new element.
Fresh(e) == e \notin exists /\ \A x \in Elems : x < e => x \in exists

\* The patched Audio constructor and document.createElement: the new element is
\* registered and given a once-only play listener.
CreateElement(e, src, blk) ==
    /\ started
    /\ Fresh(e)
    /\ exists' = exists \cup {e}
    /\ hasSrc' = IF src THEN hasSrc \cup {e} ELSE hasSrc
    /\ blocked' = IF blk THEN blocked \cup {e} ELSE blocked
    /\ LET st1 == getMediaId(Pack, e)
           st2 == [st1 EXCEPT !.listeners = @ \cup {<<e, IdOf(st1.reg, e)>>}]
       IN WithinBounds(st2) /\ Unpack(st2)
    /\ UNCHANGED <<instances, polls, hostname, store, inDoc, started, script>>

\* An element made without the patched constructors (the parser, innerHTML,
\* cloneNode): the script does not see it.
PageCreates(e, src, blk) ==
    /\ started
    /\ Fresh(e)
    /\ exists' = exists \cup {e}
    /\ hasSrc' = IF src THEN hasSrc \cup {e} ELSE hasSrc
    /\ blocked' = IF blk THEN blocked \cup {e} ELSE blocked
    /\ UNCHANGED <<instances, polls, hostname, store, inDoc, started, elProps, tap, listeners,
                   currentSettings, settingsLoaded, audioContext, impulseResponseBuffer,
                   renders, mediaRegistry, nextId, audioGraphRegistry, timers, pending,
                   storeQ, resp, script>>

\* The MutationObserver callback for an inserted element: processMedia.
InsertElement(e) ==
    /\ started
    /\ e \in exists \ inDoc
    /\ inDoc' = inDoc \cup {e}
    /\ \E ch \in CtxOutcomes :
          LET st1 == getMediaId(Pack, e)
              st2 == applySettingsToElement(st1, e, IdOf(st1.reg, e), ch)
              st3 == IF st2.threw THEN st2
                     ELSE [st2 EXCEPT !.listeners = @ \cup {<<e, IdOf(st1.reg, e)>>}]
              st4 == DrainMicro(st3)
          IN WithinBounds(st4) /\ Unpack(st4)
    /\ UNCHANGED <<instances, polls, hostname, store, exists, hasSrc, blocked, started, script>>

\* The page detaches an element; the observer ignores removals.
RemoveElement(e) ==
    /\ started
    /\ e \in inDoc
    /\ inDoc' = inDoc \ {e}
    /\ UNCHANGED <<instances, polls, hostname, store, exists, hasSrc, blocked, started, elProps, tap,
                   listeners, currentSettings, settingsLoaded, audioContext,
                   impulseResponseBuffer, renders, mediaRegistry, nextId,
                   audioGraphRegistry, timers, pending, storeQ, resp, script>>

\* The page sets or clears an element's source.
SetSrc(e, src) ==
    /\ started
    /\ e \in exists
    /\ (e \in hasSrc) # src
    /\ hasSrc' = IF src THEN hasSrc \cup {e} ELSE hasSrc \ {e}
    /\ UNCHANGED <<instances, polls, hostname, store, exists, inDoc, blocked, started, elProps, tap,
                   listeners, currentSettings, settingsLoaded, audioContext,
                   impulseResponseBuffer, renders, mediaRegistry, nextId,
                   audioGraphRegistry, timers, pending, storeQ, resp, script>>

\* Page script sets an element's volume itself; the script listens to no
\* volumechange event.
PageSets(e) ==
    /\ started
    /\ e \in exists
    /\ elProps[e].volume # 0
    /\ elProps' = [elProps EXCEPT ![e].volume = 0]
    /\ UNCHANGED <<instances, polls, hostname, store, exists, inDoc, hasSrc, blocked, started, tap,
                   listeners, currentSettings, settingsLoaded, audioContext,
                   impulseResponseBuffer, renders, mediaRegistry, nextId,
                   audioGraphRegistry, timers, pending, storeQ, resp, script>>

\* The once-only listeners of e run in the order they were added, which is the
\* order of their ids; a listener that throws does not stop the next.
RECURSIVE RunListeners(_, _, _, _)
RunListeners(st, e, ids, ch) ==
    IF ids = <<>> THEN st
    ELSE RunListeners([applySettingsToElement(st, e, Head(ids), ch) EXCEPT !.threw = FALSE],
                      e, Tail(ids), ch)

\* A play event on e: the capturing listener of the document, when e is attached,
\* then e's once-only listeners.
Play(e) ==
    /\ started
    /\ e \in exists
    /\ \E ch \in CtxOutcomes :
          LET st1 == IF e \in inDoc
                     THEN LET s == getMediaId(Pack, e)
                          IN [applySettingsToElement(s, e, IdOf(s.reg, e), ch) EXCEPT !.threw = FALSE]
                     ELSE Pack
              ids == KeysInOrder({id \in Ids : <<e, id>> \in listeners})
              st2 == RunListeners(st1, e, ids, ch)
              st3 == DrainMicro([st2 EXCEPT !.listeners = {l \in @ : l[1] # e}])
          IN WithinBounds(st3) /\ Unpack(st3)
    /\ PageUnchanged
    /\ UNCHANGED store

\* ------------------------------------------------------- specifications
Hosts == {"", "default", "a.example"}
Keys == {getCurrentDomain(h) : h \in Hosts}

Req(action, id, value, flag) == [action |-> action, id |-> id, value |-> value, flag |-> flag]
NumReqs(action, ids, values) == {Req(action, id, v, FALSE) : id \in ids, v \in values}
FlagReqs(action, ids) == {Req(action, id, 0, f) : id \in ids, f \in BOOLEAN}
PlainReqs(actions) == {Req(a, 0, 0, FALSE) : a \in actions}

\* The state before the script runs in a page: the page's elements are attached,
\* the store holds what earlier pages or other code left in it.
InitWith(hosts, stored, props) ==
    /\ hostname \in hosts
    /\ store \in [Keys -> stored]
    /\ \E k \in 0..MaxElems : exists = 1..k
    /\ inDoc = exists
    /\ hasSrc \in SUBSET exists
    /\ blocked \in SUBSET exists
    /\ elProps \in [Elems -> props]
    /\ tap = [e \in Elems |-> "none"]
    /\ listeners = {}
    /\ started = FALSE
    /\ currentSettings = DEFAULT_SETTINGS
    /\ settingsLoaded = FALSE
    /\ audioContext = "none"
    /\ impulseResponseBuffer = FALSE
    /\ renders = 0
    /\ mediaRegistry = <<>>
    /\ nextId = 1
    /\ audioGraphRegistry = <<>>
    /\ timers = <<>>
    /\ pending = <<>>
    /\ storeQ = <<>>
    /\ resp = NoResp
    /\ instances = 0
    /\ polls = <<>>

\* The same with every element as the browser makes it
InitOf(hosts, stored) == InitWith(hosts, stored, {DefaultProps})

\* sendResponse's message reaches the popup.  A handler's response is in flight
\* when its macrotask ends, and nothing else happens in the page before it is
\* handed to the channel.
Deliver ==
    /\ resp # NoResp
    /\ resp' = NoResp
    /\ UNCHANGED <<instances, polls, hostname, store, exists, inDoc, hasSrc, blocked, elProps, tap,
                   listeners, started, currentSettings, settingsLoaded, audioContext,
                   impulseResponseBuffer, renders, mediaRegistry, nextId,
                   audioGraphRegistry, timers, pending, storeQ, script>>

Quiet == resp = NoResp

\* Ids of the registry and value inputs of the commands
MutatingActions ==
    {"setVolume", "setPlaybackRate", "setPreservesPitch", "setMuted", "setReverb",
     "setReverbEnabled"}

\* --- the media registry under every discovery channel, polls and prunes
\* Commands arrive while fewer than MaxBacklog store calls are in flight.
Calm == resp = NoResp /\ Len(storeQ) < MaxBacklog

RegistryNext ==
    \/ Deliver
    \/ Quiet /\ Start
    \/ Calm /\ \E req \in PlainReqs({"getMedia"}) : Receive(req)
    \/ Quiet /\ \E ok \in BOOLEAN : StoreSettles(ok)
    \/ Quiet /\ \E e \in Elems, src \in BOOLEAN : CreateElement(e, src, FALSE)
    \/ Quiet /\ \E e \in Elems, src \in BOOLEAN : PageCreates(e, src, FALSE)
    \/ Quiet /\ \E e \in Elems : InsertElement(e)
    \/ Quiet /\ \E e \in Elems : RemoveElement(e)
    \/ Quiet /\ \E e \in Elems, src \in BOOLEAN : SetSrc(e, src)
    \/ Quiet /\ \E e \in Elems : Play(e)

RegistryInit == InitOf({"a.example"}, {StoredAbsent}) /\ blocked = {} /\ script = <<>>
SpecRegistry == RegistryInit /\ [][RegistryNext]_vars

\* --- one element, its audio graph under reverb commands, polls and play events
AudioReqs ==
    PlainReqs({"getMedia"}) \cup FlagReqs("setReverbEnabled", {1})
        \cup NumReqs("setReverb", {1}, 0..Res)

AudioNext ==
    \/ Deliver
    \/ Quiet /\ Start
    \/ Calm /\ \E req \in AudioReqs : Receive(req)
    \/ Quiet /\ \E ok \in BOOLEAN : StoreSettles(ok)
    \/ Quiet /\ \E ok \in BOOLEAN : RenderSettles(ok)
    \/ Quiet /\ ResumeSettles
    \/ Quiet /\ TimerFires
    \/ Quiet /\ \E e \in Elems : RemoveElement(e)
    \/ Quiet /\ \E e \in Elems : Play(e)

AudioInit ==
    InitOf({"a.example"}, {StoredAbsent}) /\ exists = {1} /\ hasSrc = {} /\ script = <<>>
SpecAudio == AudioInit /\ [][AudioNext]_vars

\* --- enable, disable, enable of one tappable element, sent back to back: no
\* teardown timer fires before the last of the three has arrived
Enable(id) == Req("setReverbEnabled", id, 0, TRUE)
Disable(id) == Req("setReverbEnabled", id, 0, FALSE)

ToggleNext ==
    \/ Deliver
    \/ Quiet /\ Start
    \/ Quiet /\ SendNext
    \/ Quiet /\ \E ok \in BOOLEAN : StoreSettles(ok)
    \/ Quiet /\ \E ok \in BOOLEAN : RenderSettles(ok)
    \/ Quiet /\ ResumeSettles
    \/ Quiet /\ script = <<>> /\ TimerFires

ToggleInit ==
    /\ InitOf(Hosts, {StoredAbsent}) /\ exists = {1} /\ blocked = {}
    /\ script = <<Enable(1), Disable(1), Enable(1)>>
SpecToggle == ToggleInit /\ [][ToggleNext]_vars

\* --- two elements the page detaches and strips of their source, one of them
\* with reverb
PruneReqs == PlainReqs({"getMedia"}) \cup {Enable(1)}

PruneNext ==
    \/ Deliver
    \/ Quiet /\ Start
    \/ Calm /\ \E req \in PruneReqs : Receive(req)
    \/ Quiet /\ StoreSettles(TRUE)
    \/ Quiet /\ RenderSettles(TRUE)
    \/ Quiet /\ ResumeSettles
    \/ Quiet /\ \E e \in Elems : RemoveElement(e)
    \/ Quiet /\ \E e \in Elems : SetSrc(e, FALSE)

PruneInit == InitOf({"a.example"}, {StoredAbsent}) /\ blocked = {} /\ script = <<>>
SpecPrune == PruneInit /\ [][PruneNext]_vars

\* --- one element, blocked or not, under every kind of command
BlockedReqs ==
    PlainReqs({"getMedia"}) \cup FlagReqs("setReverbEnabled", {1})
        \cup NumReqs("setVolume", {1}, {0}) \cup NumReqs("setPlaybackRate", {1}, {Res + 1})
        \cup {Req("setPreservesPitch", 1, 0, FALSE), Req("setMuted", 1, 0, TRUE)}

BlockedNext ==
    \/ Deliver
    \/ Quiet /\ Start
    \/ Calm /\ \E req \in BlockedReqs : Receive(req)
    \/ Quiet /\ StoreSettles(TRUE)
    \/ Quiet /\ RenderSettles(TRUE)
    \/ Quiet /\ ResumeSettles
    \/ Quiet /\ TimerFires

BlockedInit ==
    InitOf({"a.example"}, {StoredAbsent}) /\ exists = {1} /\ hasSrc = {1} /\ script = <<>>
SpecBlocked == BlockedInit /\ [][BlockedNext]_vars

\* --- one element under volume and reverb commands of any value, and commands
\* for an id no element has
CmdReqs ==
    NumReqs("setVolume", {1}, NumInputs) \cup NumReqs("setReverb", {1}, NumInputs)
        \cup NumReqs("setVolume", {MaxId}, {0}) \cup NumReqs("setPlaybackRate", {MaxId}, {0})
        \cup NumReqs("setReverb", {MaxId}, {Res})
        \cup {Req("setPreservesPitch", MaxId, 0, FALSE), Req("setMuted", MaxId, 0, TRUE),
              Enable(MaxId)}

CmdNext ==
    \/ Deliver
    \/ Quiet /\ Start
    \/ Calm /\ \E req \in CmdReqs : Receive(req)
    \/ Quiet /\ \E ok \in BOOLEAN : StoreSettles(ok)

CmdInit ==
    /\ InitOf({"a.example"}, {StoredAbsent}) /\ exists = {1} /\ hasSrc = {1} /\ blocked = {}
    /\ script = <<>>
SpecCmd == CmdInit /\ [][CmdNext]_vars

\* --- the store holding any kind of value for the site when the page starts
StoredVal ==
    [volume |-> 1, playbackRate |-> Res + 1, preservesPitch |-> FALSE, muted |-> TRUE,
     reverb |-> 1, reverbEnabled |-> TRUE]

StoredRecords ==
    {StoredAbsent, [StoredAbsent EXCEPT !.kind = "other"]}
        \cup {[kind |-> "object", has |-> h, val |-> StoredVal] :
                 h \in {{}, {"volume", "muted"}, PersistedFields, AllFields}}

StoreReqs == PlainReqs({"ping", "getMedia"}) \cup FlagReqs("setReverbEnabled", {1})

StoreInit ==
    /\ InitOf({"a.example"}, StoredRecords) /\ exists = {1} /\ hasSrc = {1} /\ blocked = {}
    /\ \A k \in Keys : k # StorageKey(hostname) => store[k] = StoredAbsent
    /\ script = <<>>

StoreNext ==
    \/ Deliver
    \/ Quiet /\ Start
    \/ Quiet /\ \E req \in StoreReqs : Receive(req)
    \/ Quiet /\ \E ok \in BOOLEAN : StoreSettles(ok)
    \/ Quiet /\ RenderSettles(TRUE)
    \/ Quiet /\ ResumeSettles
    \/ Quiet /\ TimerFires

SpecStore == StoreInit /\ [][StoreNext]_vars

\* --- the same with a store that answers every read
LoadReqs == PlainReqs({"ping", "getMedia"}) \cup FlagReqs("setMuted", {1})

LoadNext ==
    \/ Deliver
    \/ Quiet /\ Start
    \/ Quiet /\ \E req \in LoadReqs : Receive(req)
    \/ Quiet /\ StoreSettles(TRUE)

SpecLoad == StoreInit /\ [][LoadNext]_vars

\* --- one element under every kind of command, recognised or not
ProtocolReqs ==
    PlainReqs({"ping", "getMedia", "reset"}) \cup {Enable(1)}
        \cup NumReqs("setVolume", {1}, {0}) \cup NumReqs("setPlaybackRate", {1}, {0})
        \cup NumReqs("setReverb", {1}, {Res})
        \cup {Req("setPreservesPitch", 1, 0, FALSE), Req("setMuted", 1, 0, TRUE)}

ProtocolNext ==
    \/ Deliver
    \/ Quiet /\ Start
    \/ Calm /\ \E req \in ProtocolReqs : Receive(req)
    \/ Quiet /\ StoreSettles(TRUE)
    \/ Quiet /\ RenderSettles(TRUE)
    \/ Quiet /\ ResumeSettles

ProtocolInit ==
    /\ InitOf({"a.example"}, {StoredAbsent}) /\ exists = {1} /\ hasSrc = {1} /\ blocked = {}
    /\ script = <<>>
SpecProtocol == ProtocolInit /\ [][ProtocolNext]_vars

\* --- commands arriving around the start-up load, with a store that answers
RaceReqs ==
    PlainReqs({"ping"}) \cup NumReqs("setVolume", {1}, {0}) \cup {Req("setMuted", 1, 0, TRUE)}

RaceNext ==
    \/ Deliver
    \/ Quiet /\ Start
    \/ Calm /\ \E req \in RaceReqs : Receive(req)
    \/ Quiet /\ StoreSettles(TRUE)

RaceInit ==
    /\ InitOf(Hosts, {StoredAbsent}) /\ exists = {1} /\ hasSrc = {1} /\ blocked = {}
    /\ script = <<>>
SpecRace == RaceInit /\ [][RaceNext]_vars

\* --- the same with a store that fails every read and every write
DownNext ==
    \/ Deliver
    \/ Quiet /\ Start
    \/ Quiet /\ \E req \in LoadReqs : Receive(req)
    \/ Quiet /\ StoreSettles(FALSE)

SpecStoreDown == StoreInit /\ [][DownNext]_vars

\* --- page events only, on a site with or without a saved record, the page
\* having set the volume of some elements itself
PageProps == [DefaultProps EXCEPT !.volume = 0]
SavedRecord == [kind |-> "object", has |-> PersistedFields, val |-> StoredVal]

ScanNext ==
    \/ Start
    \/ StoreSettles(TRUE)
    \/ \E e \in Elems : InsertElement(e)
    \/ \E e \in Elems : RemoveElement(e)
    \/ \E e \in Elems : Play(e)

ScanInit ==
    /\ InitWith({"a.example"}, {StoredAbsent, SavedRecord}, {DefaultProps, PageProps})
    /\ \A k \in Keys : k # StorageKey(hostname) => store[k] = StoredAbsent
    /\ \A e \in Elems \ exists : elProps[e] = DefaultProps
    /\ blocked = {} /\ script = <<>>
SpecScan == ScanInit /\ [][ScanNext]_vars

\* --- one command of any kind and value, its answer kept once it is sent
AnswerReqs ==
    PlainReqs({"ping", "getMedia", "reset"}) \cup FlagReqs("setReverbEnabled", {1})
        \cup NumReqs("setVolume", {1, MaxId}, NumInputs)
        \cup NumReqs("setPlaybackRate", {1}, NumInputs)
        \cup NumReqs("setReverb", {1}, NumInputs)
        \cup FlagReqs("setPreservesPitch", {1}) \cup FlagReqs("setMuted", {1})

AnswerNext ==
    \/ Start
    \/ SendNext
    \/ \E ok \in BOOLEAN : StoreSettles(ok)
    \/ \E ok \in BOOLEAN : RenderSettles(ok)
    \/ ResumeSettles

AnswerInit ==
    /\ InitOf({"a.example"}, {StoredAbsent}) /\ exists = {1} /\ hasSrc = {1}
    /\ script \in {<<req>> : req \in AnswerReqs}
SpecAnswer == AnswerInit /\ [][AnswerNext]_vars

\* --- enable then disable of one tappable element, sent one after the other
OrderInit ==
    /\ InitOf(Hosts, {StoredAbsent}) /\ exists = {1} /\ blocked = {}
    /\ script = <<Enable(1), Disable(1)>>
SpecOrder == OrderInit /\ [][ToggleNext]_vars

\* --- full reverb set and enabled for one tappable element, then disabled, with
\* timers that fire and answers that are delivered
FadeNext ==
    \/ Deliver
    \/ Quiet /\ Start
    \/ Quiet /\ SendNext
    \/ Quiet /\ StoreSettles(TRUE)
    \/ Quiet /\ RenderSettles(TRUE)
    \/ Quiet /\ ResumeSettles
    \/ Quiet /\ TimerFires

FadeInit ==
    /\ InitOf(Hosts, {StoredAbsent}) /\ exists = {1} /\ blocked = {}
    /\ script = <<Req("setReverb", 1, Res, FALSE), Enable(1), Disable(1)>>
SpecFade ==
    FadeInit /\ [][FadeNext]_vars /\ WF_vars(Deliver) /\ WF_vars(Quiet /\ TimerFires)

\* --- enable, disable, enable of one tappable element, each command sent once
\* the one before is answered and its timer has fired
Settled == storeQ = <<>> /\ pending = <<>> /\ timers = <<>>

ReenableNext ==
    \/ Deliver
    \/ Quiet /\ Start
    \/ Quiet /\ Settled /\ SendNext
    \/ Quiet /\ StoreSettles(TRUE)
    \/ Quiet /\ RenderSettles(TRUE)
    \/ Quiet /\ ResumeSettles
    \/ Quiet /\ TimerFires

SpecReenable == ToggleInit /\ [][ReenableNext]_vars

\* --- two elements with a source, which the page detaches and whose volume it
\* sets itself, under polls and commands
SnapshotReqs ==
    PlainReqs({"getMedia"}) \cup NumReqs("setVolume", {1}, {1})
        \cup {Req("setMuted", 2, 0, TRUE)}

SnapshotNext ==
    \/ Deliver
    \/ Quiet /\ Start
    \/ Calm /\ \E req \in SnapshotReqs : Receive(req)
    \/ Quiet /\ StoreSettles(TRUE)
    \/ Quiet /\ \E e \in Elems : RemoveElement(e)
    \/ Quiet /\ \E e \in Elems : InsertElement(e)
    \/ Quiet /\ \E e \in Elems : PageSets(e)

SnapshotInit ==
    /\ InitOf({"a.example"}, {StoredAbsent}) /\ exists = Elems /\ hasSrc = Elems
    /\ blocked = {} /\ script = <<>>
SpecSnapshot == SnapshotInit /\ [][SnapshotNext]_vars

\* --- two attached elements: reverb enabled through the first, a poll, the wet
\* mix set through the second, a poll; each command sent once the one before
\* has settled
MixNext ==
    \/ Deliver
    \/ Quiet /\ Start
    \/ Quiet /\ Settled /\ SendNext
    \/ Quiet /\ StoreSettles(TRUE)
    \/ Quiet /\ RenderSettles(TRUE)
    \/ Quiet /\ ResumeSettles

MixInit ==
    /\ InitOf({"a.example"}, {StoredAbsent}) /\ exists = Elems /\ inDoc = Elems
    /\ hasSrc = Elems /\ blocked = {}
    /\ script = <<Enable(1), Req("getMedia", 0, 0, FALSE), Req("setReverb", 2, Res, FALSE),
                  Req("getMedia", 0, 0, FALSE)>>
SpecMix == MixInit /\ [][MixNext]_vars

\* --- the store holding for the site a record whose volume and reverb lie
\* outside [0, 1], or none
MalformedVal == [StoredVal EXCEPT !.volume = Res + 1, !.reverb = 0 - 1]

MalformedInit ==
    /\ InitOf({"a.example"},
              {StoredAbsent, [kind |-> "object", has |-> PersistedFields, val |-> MalformedVal]})
    /\ exists = {1} /\ hasSrc = {1} /\ blocked = {}
    /\ \A k \in Keys : k # StorageKey(hostname) => store[k] = StoredAbsent
    /\ script = <<>>

SpecMalformed == MalformedInit /\ [][LoadNext]_vars

\* --- one element, blocked or not: reverb enabled twice, the second command
\* sent once the first has settled
RetryInit ==
    /\ InitOf(Hosts, {StoredAbsent}) /\ exists = {1}
    /\ script = <<Enable(1), Enable(1)>>
SpecRetry == RetryInit /\ [][MixNext]_vars

\* --- one element under playback-rate commands of any value and the two
\* boolean commands
PropReqs ==
    NumReqs("setPlaybackRate", {1}, NumInputs) \cup FlagReqs("setPreservesPitch", {1})
        \cup FlagReqs("setMuted", {1})

PropNext ==
    \/ Deliver
    \/ Quiet /\ Start
    \/ Calm /\ \E req \in PropReqs : Receive(req)
    \/ Quiet /\ StoreSettles(TRUE)

SpecProps == CmdInit /\ [][PropNext]_vars

\* --- one tappable element under every mutating command, with the graph built,
\* fading and torn down in between
FrameReqs ==
    FlagReqs("setReverbEnabled", {1}) \cup NumReqs("setReverb", {1}, {0, Res})
        \cup NumReqs("setVolume", {1}, {0}) \cup NumReqs("setPlaybackRate", {1}, {Res + 1})
        \cup {Req("setPreservesPitch", 1, 0, FALSE), Req("setMuted", 1, 0, TRUE)}

FrameNext ==
    \/ Deliver
    \/ Quiet /\ Start
    \/ Calm /\ \E req \in FrameReqs : Receive(req)
    \/ Quiet /\ StoreSettles(TRUE)
    \/ Quiet /\ RenderSettles(TRUE)
    \/ Quiet /\ ResumeSettles
    \/ Quiet /\ TimerFires

SpecFrame == CmdInit /\ [][FrameNext]_vars

\* --- a tab the script is not yet in, probed by the popup's polls and by the
\* background
InjectNext ==
    \/ PollStarts
    \/ IconClicked
    \/ \E i \in 1..MaxPolls : ProbeSettles(i)
    \/ \E i \in 1..MaxPolls, ok \in BOOLEAN : InjectionSettles(i, ok)
    \/ \E i \in 1..MaxPolls : WaitEnds(i)
    \/ \E i \in 1..MaxPolls : RetrySettles(i)
    \/ StoreSettles(TRUE)

InjectInit ==
    InitOf({"a.example"}, {StoredAbsent}) /\ exists = {} /\ script = <<>>
SpecInject == InjectInit /\ [][InjectNext]_vars

\* --- enable, disable and a poll on one tappable element, each command sent
\* once the one before is answered, whether or not the teardown timer has fired
Answered == storeQ = <<>> /\ pending = <<>>

ReportNext ==
    \/ Deliver
    \/ Quiet /\ Start
    \/ Quiet /\ Answered /\ SendNext
    \/ Quiet /\ StoreSettles(TRUE)
    \/ Quiet /\ RenderSettles(TRUE)
    \/ Quiet /\ ResumeSettles
    \/ Quiet /\ TimerFires

ReportInit ==
    /\ InitOf(Hosts, {StoredAbsent}) /\ exists = {1} /\ blocked = {}
    /\ script = <<Enable(1), Disable(1), Req("getMedia", 0, 0, FALSE)>>
SpecReport == ReportInit /\ [][ReportNext]_vars

\* --- two attached elements: reverb enabled through the first, a poll, reverb
\* disabled through the first; each command sent once the one before has settled
ReleaseInit ==
    /\ InitOf(Hosts, {StoredAbsent}) /\ exists = Elems /\ hasSrc = Elems /\ blocked = {}
    /\ script = <<Enable(1), Req("getMedia", 0, 0, FALSE), Disable(1)>>
SpecRelease == ReleaseInit /\ [][ReenableNext]_vars

\* --- enable, disable and a wet-mix command on one tappable element, each sent
\* once the one before is answered, whether or not the teardown timer has fired
LateMixInit ==
    /\ InitOf(Hosts, {StoredAbsent}) /\ exists = {1} /\ blocked = {}
    /\ script = <<Enable(1), Disable(1), Req("setReverb", 1, Res + 1, FALSE)>>
SpecLateMix == LateMixInit /\ [][ReportNext]_vars

Init == RegistryInit
Next == RegistryNext
Spec == Init /\ [][Next]_vars

\* ----------------------------------------------------------------- claims
\* C1: identifying an element returns the id it was identified by before,
\* across every discovery event and every prune: the id a play listener
\* captured for an element is the element's id whenever the element is
\* registered, no element has been given a second id, and no two elements
\* share an id.
C1_SameIdAlways ==
    /\ \A i, j \in DOMAIN mediaRegistry : mediaRegistry[i] = mediaRegistry[j] => i = j
    /\ \A l \in listeners : IdOf(mediaRegistry, l[1]) \in {0, l[2]}
    /\ nextId - 1 <= Cardinality(exists)

\* C8: ids are handed out in increasing order, every id in use lies below
\* nextId, and an id, once handed out, is never given to another element, also
\* after its entry was pruned.
C8_IdsIncreaseNeverReused ==
    /\ [](/\ \A id \in DOMAIN mediaRegistry : id < nextId
          /\ \A l \in listeners : l[2] < nextId)
    /\ [][/\ nextId' >= nextId
          /\ \A id \in DOMAIN mediaRegistry' :
                IF id \in DOMAIN mediaRegistry
                THEN mediaRegistry'[id] = mediaRegistry[id]
                ELSE id >= nextId /\ id < nextId'
          /\ nextId' - nextId =
                Cardinality(DOMAIN mediaRegistry' \ DOMAIN mediaRegistry)]_vars

\* C8 witness: an id was pruned and a later id is in use.
C8_Witness ==
    \E id \in 1..(nextId - 1), later \in DOMAIN mediaRegistry :
        id \notin DOMAIN mediaRegistry /\ later > id

Graph(id) == audioGraphRegistry[id]
SumOfSquaresIsOne(g) == Abs(g.dry * g.dry + g.wet * g.wet - Scale * Scale) <= (Scale * Scale) \div 1000
IsEqualPowerOf(g, m) == g.dry = MathCos(Angle(m)) /\ g.wet = MathSin(Angle(m))
FadePending(id) == \E i \in 1..Len(timers) : timers[i].id = id

\* C9 as stated: the gain targets of every registered graph are the equal-power
\* pair of its wet mix, also while a disable fade is pending.
C9_EqualPowerAlways ==
    \A id \in DOMAIN audioGraphRegistry :
        IsEqualPowerOf(Graph(id), Graph(id).reverbMix) /\ SumOfSquaresIsOne(Graph(id))

\* C9 amended: the gain targets of every registered graph are the equal-power
\* pair of its wet mix, except while the graph's disable fade is pending, when
\* they may be the fade's dry 1 and wet 0 with the wet mix unchanged; in both
\* cases dry^2 + wet^2 = 1.
C9_EqualPowerUnlessFading ==
    \A id \in DOMAIN audioGraphRegistry :
        /\ \/ IsEqualPowerOf(Graph(id), Graph(id).reverbMix)
           \/ FadePending(id) /\ IsEqualPowerOf(Graph(id), 0)
        /\ SumOfSquaresIsOne(Graph(id))

\* C9 witness: a graph with a wet mix strictly between 0 and 1 whose targets are
\* the equal-power pair, and no fade pending.
C9_Witness ==
    \E id \in DOMAIN audioGraphRegistry :
        /\ Graph(id).reverbMix > 0 /\ Graph(id).reverbMix < Res
        /\ Graph(id).dry > 0 /\ Graph(id).wet > 0
        /\ ~FadePending(id)

\* C2: once enable, disable, enable have been sent for the tappable element,
\* every command is answered and every timer has fired, the id still has a
\* registered graph whose nodes are connected.
C2_ReenabledGraphSurvives ==
    (/\ started /\ script = <<>> /\ storeQ = <<>> /\ pending = <<>>
     /\ timers = <<>> /\ resp = NoResp
     /\ audioContext = "running" /\ impulseResponseBuffer)
    => (1 \in DOMAIN audioGraphRegistry /\ tap[mediaRegistry[1]] = "connected")

\* A step in which the store settled its oldest call
StoreSettled == storeQ # <<>> /\ storeQ' # storeQ /\ Len(storeQ') <= Len(storeQ)
\* A step in which loadSettings completed
LoadCompleted == StoreSettled /\ Head(storeQ).op = "get"
\* A step in which applyChange ran for request r up to its save
Applied(r) ==
    /\ storeQ' # storeQ /\ Len(storeQ') >= Len(storeQ) /\ storeQ' # <<>>
    /\ storeQ'[Len(storeQ')].op = "set" /\ storeQ'[Len(storeQ')].req = r
    /\ r.id \in DOMAIN mediaRegistry
HasFlag(rec) == rec.kind = "object" /\ "reverbEnabled" \in rec.has
Clamped(v) == IF v < 0 THEN 0 ELSE IF v > Res THEN Res ELSE v

\* C3: a store that holds no record with a reverbEnabled field never comes to
\* hold one, no step writes a record with the field, and every completed load
\* leaves the in-memory reverbEnabled false (before the command that waited for
\* the load, if it is an enable, runs), whatever it was and whatever is stored.
C3_ReverbEnabledNotPersisted ==
    /\ (\A k \in Keys : ~HasFlag(store[k])) => [](\A k \in Keys : ~HasFlag(store[k]))
    /\ [][/\ \A k \in Keys : store'[k] # store[k] => ~HasFlag(store'[k])
          /\ (LoadCompleted /\ ~(Head(storeQ).req.action = "setReverbEnabled"
                                   /\ Head(storeQ).req.flag))
                => ~currentSettings'.reverbEnabled]_vars

\* C3 witness: reverb is enabled in memory and the record the script has
\* persisted for the site is the in-memory record without reverbEnabled.
C3_Witness ==
    /\ currentSettings.reverbEnabled
    /\ store[StorageKey(hostname)].kind = "object"
    /\ store[StorageKey(hostname)].has = PersistedFields
    /\ \A f \in PersistedFields : store[StorageKey(hostname)].val[f] = currentSettings[f]
    /\ currentSettings.muted = FALSE

C5_UnknownIdIsNoOp ==
    [][(/\ settingsLoaded /\ resp = NoResp /\ resp' # NoResp /\ storeQ' = storeQ
        /\ resp'.req.action \in MutatingActions
        /\ resp'.req.id \notin DOMAIN mediaRegistry)
       => /\ resp'.result = "ok"
          /\ UNCHANGED <<elProps, currentSettings, audioGraphRegistry, store, mediaRegistry,
                         tap, timers, pending, settingsLoaded, audioContext>>]_vars

\* C5 witness: setMuted for an unknown id has been answered ok while the
\* settings, changed by earlier commands, keep muted false.
C5_Witness ==
    /\ settingsLoaded /\ resp.result = "ok" /\ resp.req = Req("setMuted", MaxId, 0, TRUE)
    /\ MaxId \notin DOMAIN mediaRegistry
    /\ currentSettings.volume = 0 /\ ~currentSettings.muted

\* C6: an element whose tap fails never has a graph, every getMedia result
\* reports reverbEnabled false for it, setReverbEnabled for it is answered ok,
\* and setVolume, setPlaybackRate, setPreservesPitch and setMuted for it take
\* effect on the element and the settings.
C6_BlockedTapDegrades ==
    /\ [](\A id \in DOMAIN mediaRegistry :
             mediaRegistry[id] \in blocked =>
                /\ id \notin DOMAIN audioGraphRegistry
                /\ \A i \in 1..Len(resp.media) :
                      resp.media[i].id = id => ~resp.media[i].reverbEnabled)
    /\ [][\A r \in BlockedReqs :
             (Applied(r) /\ mediaRegistry[r.id] \in blocked) =>
                LET el == mediaRegistry[r.id]
                IN /\ r.action = "setVolume" =>
                         elProps'[el].volume = r.value /\ currentSettings'.volume = r.value
                   /\ r.action = "setPlaybackRate" =>
                         /\ elProps'[el].playbackRate = r.value
                         /\ currentSettings'.playbackRate = r.value
                   /\ r.action = "setPreservesPitch" =>
                         /\ elProps'[el].preservesPitch = r.flag
                         /\ currentSettings'.preservesPitch = r.flag
                   /\ r.action = "setMuted" =>
                         elProps'[el].muted = r.flag /\ currentSettings'.muted = r.flag]_vars
    /\ [][(StoreSettled /\ Head(storeQ).op = "set")
             => resp' = [req |-> Head(storeQ).req, result |-> "ok", media |-> <<>>]]_vars

\* C6 witness: after reverb was enabled for the blocked element and the audio
\* context is running, a getMedia result reports it without reverb, with the
\* volume a later command set.
C6_Witness ==
    /\ 1 \in DOMAIN mediaRegistry /\ mediaRegistry[1] \in blocked
    /\ currentSettings.reverbEnabled /\ audioContext = "running" /\ impulseResponseBuffer
    /\ pending = <<>>
    /\ resp.result = "media" /\ Len(resp.media) = 1 /\ ~resp.media[1].reverbEnabled
    /\ resp.media[1].volume = 0 /\ elProps[mediaRegistry[1]].volume = 0

MediaIds(r) == {r.media[i].id : i \in 1..Len(r.media)}

\* C7: when getMedia answers, every tracked element that is detached and has
\* no source is gone from the registry, the graph registry and the result, and
\* every other tracked element keeps its entry and id and is in the result.
C7_PruneOnGetMedia ==
    [][(resp = NoResp /\ resp'.result = "media") =>
          \A id \in DOMAIN mediaRegistry :
             IF mediaRegistry[id] \notin inDoc /\ mediaRegistry[id] \notin hasSrc
             THEN /\ id \notin DOMAIN mediaRegistry'
                  /\ id \notin DOMAIN audioGraphRegistry'
                  /\ id \notin MediaIds(resp')
             ELSE /\ id \in DOMAIN mediaRegistry'
                  /\ mediaRegistry'[id] = mediaRegistry[id]
                  /\ id \in MediaIds(resp')]_vars

\* C7 witness: a getMedia result that lists the detached element that still has
\* a source and not the detached one without, which is no longer registered.
C7_Witness ==
    /\ resp.result = "media" /\ MediaIds(resp) = {2}
    /\ DOMAIN mediaRegistry = {2} /\ mediaRegistry[2] \notin inDoc
    /\ mediaRegistry[2] \in hasSrc
    /\ 1 \in exists \ (inDoc \cup hasSrc) /\ nextId = 3

\* C10: a completed load with no stored record leaves exactly the defaults; with
\* a stored record, each persisted field the record has takes the stored value,
\* each one it lacks takes the default, and reverbEnabled is false.
C10_LoadMergesOverDefaults ==
    [][(LoadCompleted /\ Head(storeQ).req.action \in {"none", "ping", "getMedia"}) =>
          LET rec == store[Head(storeQ).key]
          IN /\ rec.kind = "absent" =>
                   currentSettings' = [volume |-> Res, playbackRate |-> Res,
                                       preservesPitch |-> TRUE, muted |-> FALSE,
                                       reverb |-> 0, reverbEnabled |-> FALSE]
             /\ rec.kind = "object" =>
                   /\ \A f \in PersistedFields :
                         currentSettings'[f] =
                            IF f \in rec.has THEN rec.val[f]
                            ELSE CASE f \in {"volume", "playbackRate"} -> Res
                                   [] f = "preservesPitch" -> TRUE
                                   [] f = "muted" -> FALSE
                                   [] OTHER -> 0
                   /\ currentSettings'.reverbEnabled = FALSE]_vars

\* C10 witness: settings loaded from a record that has volume and muted only.
C10_Witness ==
    /\ settingsLoaded /\ storeQ = <<>>
    /\ store[StorageKey(hostname)].kind = "object"
    /\ store[StorageKey(hostname)].has = {"volume", "muted"}
    /\ currentSettings = [volume |-> 1, playbackRate |-> Res, preservesPitch |-> TRUE,
                          muted |-> TRUE, reverb |-> 0, reverbEnabled |-> FALSE]

RecognisedActions == {"ping", "getMedia"} \cup MutatingActions

\* C11: a command with an unrecognised action is answered with the error
\* result, and no recognised command is: ping is answered pong, getMedia with
\* the media list, every mutating command with ok.
C11_OnlyUnknownActionIsError ==
    resp # NoResp =>
        /\ resp.req.action \notin RecognisedActions => resp.result = "error"
        /\ resp.req.action = "ping" => resp.result = "pong"
        /\ resp.req.action = "getMedia" => resp.result = "media"
        /\ resp.req.action \in MutatingActions => resp.result = "ok"

\* C11 witness: the unrecognised command has been answered with the error
\* result after commands had changed the settings.
C11_Witness ==
    /\ resp.req.action = "reset" /\ resp.result = "error"
    /\ currentSettings.muted /\ currentSettings.reverbEnabled

\* C12: the step that answers a ping answers pong and leaves the media
\* registry, the settings record and its loaded flag, the graph registry, the
\* element properties and the persisted records as they were, also when the
\* ping arrived before the settings were loaded.
C12_PingHasNoEffect ==
    [][(resp = NoResp /\ resp' # NoResp /\ resp'.req.action = "ping") =>
          /\ resp'.result = "pong"
          /\ UNCHANGED <<mediaRegistry, currentSettings, settingsLoaded,
                         audioGraphRegistry, elProps, store>>]_vars

\* C15: once the settings are loaded and every write has completed, the record
\* stored for the hostname carries the volume, playbackRate, preservesPitch,
\* muted and reverb of the in-memory record, so that a fresh load yields them;
\* and no write touches the record of a key other than the hostname's.
C15_SettingsRoundTrip ==
    /\ []((settingsLoaded /\ storeQ = <<>> /\ store[StorageKey(hostname)].kind = "object")
             => \A f \in PersistedFields :
                   /\ f \in store[StorageKey(hostname)].has
                   /\ store[StorageKey(hostname)].val[f] = currentSettings[f])
    /\ [][\A k \in Keys : k # StorageKey(hostname) => store'[k] = store[k]]_vars

\* C18: a load completes only while the settings are not yet marked loaded: the
\* record is read once, and no load completes after a command could have
\* changed the in-memory settings.
C18_LoadedOnce ==
    [][LoadCompleted => ~settingsLoaded]_vars

\* C13: a getMedia answer holds exactly one record per id of the media registry
\* as pruning and discovery left it, no id twice, in ascending id order; with an
\* empty registry the answer is the empty list.
C13_OneRecordPerId ==
    resp.result = "media" =>
        /\ Len(resp.media) = Cardinality(DOMAIN mediaRegistry)
        /\ MediaIds(resp) = DOMAIN mediaRegistry
        /\ \A i, j \in 1..Len(resp.media) : i < j => resp.media[i].id < resp.media[j].id
        /\ mediaRegistry = <<>> => resp.media = <<>>

\* C13 witness: an answer with two records, for ids 2 and 3, after id 1 was
\* pruned.
C13_Witness ==
    /\ resp.result = "media" /\ Len(resp.media) = 2
    /\ resp.media[1].id = 2 /\ resp.media[2].id = 3

\* C14: when the store read fails, the load leaves the defaults in memory and
\* marks the settings loaded; when the store write fails, the command is
\* answered ok in a step that leaves the persisted record, the in-memory
\* settings and the element as they were: nothing the command set is undone.
C14_StorageFailuresAbsorbed ==
    [][/\ (LoadCompleted /\ Head(storeQ).req.action \in {"none", "ping", "getMedia"}) =>
             /\ settingsLoaded'
             /\ currentSettings' = [volume |-> Res, playbackRate |-> Res,
                                    preservesPitch |-> TRUE, muted |-> FALSE,
                                    reverb |-> 0, reverbEnabled |-> FALSE]
       /\ (StoreSettled /\ Head(storeQ).op = "set") =>
             /\ resp' = [req |-> Head(storeQ).req, result |-> "ok", media |-> <<>>]
             /\ UNCHANGED <<store, currentSettings, elProps>>]_vars

\* C14 witness: with a full record stored that could not be read, setMuted has
\* been answered ok after its write failed; the settings are the defaults but
\* for muted, which the element has too, and the stored record is untouched.
C14_Witness ==
    /\ resp.result = "ok" /\ resp.req = Req("setMuted", 1, 0, TRUE)
    /\ store[StorageKey(hostname)] = [kind |-> "object", has |-> PersistedFields, val |-> StoredVal]
    /\ currentSettings.volume = Res /\ currentSettings.muted
    /\ 1 \in DOMAIN mediaRegistry /\ elProps[mediaRegistry[1]].muted

\* The element properties a settings record prescribes
PropsOf(s) ==
    [volume |-> s.volume, playbackRate |-> s.playbackRate,
     preservesPitch |-> s.preservesPitch, muted |-> s.muted]

\* C16: while a saved record exists for the site, a page event (initial scan,
\* insertion, play) that changes an element's volume, rate, pitch or mute
\* state leaves it with the values of the saved record.
C16_SavedValuesApplied ==
    [][\A e \in Elems :
          (store[StorageKey(hostname)] = SavedRecord /\ elProps'[e] # elProps[e])
             => elProps'[e] = PropsOf(StoredVal)]_vars

\* C17: once the command has arrived and no store or audio call it may wait on
\* is outstanding, it has been answered.
C17_EveryCommandAnswered ==
    (started /\ script = <<>> /\ storeQ = <<>> /\ pending = <<>>) => resp # NoResp

\* C19: once enable and then disable have arrived for the element, both are
\* answered and every timer has fired, the id has no graph and the element is
\* not tapped by a connected graph, whenever the disable arrived.
C19_DisableAfterEnableWins ==
    (/\ started /\ script = <<>> /\ storeQ = <<>> /\ pending = <<>>
     /\ timers = <<>> /\ resp = NoResp)
    => \A id \in DOMAIN mediaRegistry :
          id \notin DOMAIN audioGraphRegistry /\ tap[mediaRegistry[id]] # "connected"

\* C20: a step that taps an element ends with reverbEnabled true.
C20_TapOnlyWhileEnabled ==
    [][\A e \in Elems :
          (tap[e] # "connected" /\ tap'[e] = "connected") => currentSettings'.reverbEnabled]_vars

\* C21: a graph leaves the registry only when its teardown timer fires, with
\* the fade started before (wet target 0, dry target 1) and its nodes
\* disconnected in the same step; and once the disable has started the fade of
\* a graph, the graph is eventually gone and the element's nodes disconnected.
C21_TeardownFollowsFade ==
    /\ [][\A id \in DOMAIN audioGraphRegistry :
             id \notin DOMAIN audioGraphRegistry' =>
                /\ Graph(id).wet = 0 /\ Graph(id).dry = Scale
                /\ timers # <<>> /\ Head(timers).id = id /\ timers' = Tail(timers)
                /\ tap'[Graph(id).el] = "disconnected"]_vars
    /\ \A id \in Ids, e \in Elems :
          (\E i \in 1..Len(timers) : timers[i] = [el |-> e, id |-> id]) ~>
             (id \notin DOMAIN audioGraphRegistry /\ tap[e] = "disconnected")

\* C21 witness: after full reverb was enabled and then disabled, the timer has
\* fired: no graph, nodes disconnected.
C21_Witness ==
    /\ script = <<>> /\ timers = <<>> /\ audioGraphRegistry = <<>>
    /\ 1 \in DOMAIN mediaRegistry /\ tap[mediaRegistry[1]] = "disconnected"
    /\ currentSettings.reverb = Res /\ ~currentSettings.reverbEnabled

\* C22: after enable, disable with its fade and teardown completed, and enable
\* again, once everything has settled the id has a registered graph whose nodes
\* are connected.
C22_GraphComesBack ==
    (/\ started /\ script = <<>> /\ Settled /\ resp = NoResp
     /\ audioContext = "running" /\ impulseResponseBuffer)
    => (1 \in DOMAIN audioGraphRegistry /\ tap[mediaRegistry[1]] = "connected")

\* C23: the step in which a mutating command updates the element, the settings
\* and the graph and starts its store write is the step that answers it
\* { ok: true }: the answer does not wait for the write to settle.
C23_AnsweredBeforeWriteSettles ==
    [][\A r \in CmdReqs :
          Applied(r) => resp' = [req |-> r, result |-> "ok", media |-> <<>>]]_vars

\* C24: in every getMedia result, the volume, playbackRate, preservesPitch and
\* muted of every record are those of the in-memory settings at the time of the
\* snapshot, whatever the element itself reports.
C24_RecordsReportSettings ==
    resp.result = "media" =>
        \A k \in 1..Len(resp.media) :
            /\ resp.media[k].volume = currentSettings.volume
            /\ resp.media[k].playbackRate = currentSettings.playbackRate
            /\ resp.media[k].preservesPitch = currentSettings.preservesPitch
            /\ resp.media[k].muted = currentSettings.muted

\* C24 witness: a result with a record for a detached element whose own volume
\* and muted differ from the settings, the settings no longer the defaults.
C24_Witness ==
    /\ resp.result = "media"
    /\ currentSettings.volume = 1 /\ currentSettings.muted
    /\ \E k \in 1..Len(resp.media) :
          LET e == mediaRegistry[resp.media[k].id]
          IN /\ e \notin inDoc
             /\ elProps[e].volume = 0 /\ ~elProps[e].muted
             /\ resp.media[k].volume = 1 /\ resp.media[k].muted

\* C25: in every getMedia result, the reverb of every record is the reverb of
\* the in-memory settings at the time of the snapshot, with or without a graph.
C25_RecordsReportReverb ==
    resp.result = "media" =>
        \A k \in 1..Len(resp.media) : resp.media[k].reverb = currentSettings.reverb

\* C26: when getMedia is answered, every media element in the document is
\* tracked with an id and has the volume, playbackRate, preservesPitch and muted
\* of the in-memory settings.
C26_PollAppliesSettings ==
    resp.result = "media" =>
        \A e \in inDoc :
            /\ \E id \in DOMAIN mediaRegistry : mediaRegistry[id] = e
            /\ elProps[e] = PropsOf(currentSettings)

\* C26 witness: a poll answered with both elements attached, after a volume
\* command through the first and a muted command through the second.
C26_Witness ==
    /\ resp.result = "media" /\ inDoc = Elems
    /\ currentSettings.volume = 1 /\ currentSettings.muted
    /\ \A e \in Elems : elProps[e].volume = 1 /\ elProps[e].muted

\* C27: after any load the in-memory record has volume and reverb in [0, 1],
\* whatever the store held: a stored field outside its domain is replaced by
\* the default.
C27_LoadedRecordInDomain ==
    settingsLoaded =>
        /\ currentSettings.volume \in 0..Res
        /\ currentSettings.reverb \in 0..Res

\* C28: every registered AudioGraph has its convolver loaded with the generated
\* impulse response, never an empty buffer.
C28_ConvolverLoaded ==
    \A id \in DOMAIN audioGraphRegistry : Graph(id).buf

\* C29: the impulse response is generated at most once per page, and once the
\* shared buffer is set it is never replaced: no later generation completes.
C29_ImpulseGeneratedOnce ==
    /\ [](renders <= 1)
    /\ [][impulseResponseBuffer =>
             /\ impulseResponseBuffer'
             /\ renders' = renders
             /\ \A i \in 1..Len(pending') : pending'[i].stage # "init"]_vars

\* C29 witness: two graphs registered, for two elements, after one generation.
C29_Witness ==
    /\ renders = 1 /\ impulseResponseBuffer
    /\ Cardinality(DOMAIN audioGraphRegistry) = 2

\* C30: an enable whose tap failed leaves the id without a graph (the element
\* is blocked, or no audio context could be made), and does not block a later
\* enable: once both enables have settled, if a context could be made and the
\* element can be tapped, the id has a registered, connected graph.
C30_RetryAfterFailedTap ==
    /\ (1 \in blocked \/ audioContext = "none") => 1 \notin DOMAIN audioGraphRegistry
    /\ (/\ started /\ script = <<>> /\ Settled /\ resp = NoResp
        /\ audioContext # "none" /\ 1 \notin blocked)
       => (1 \in DOMAIN audioGraphRegistry /\ tap[1] = "connected")

\* C30 witness: the second enable is building the context and the impulse
\* response, which it does only when the first enable's attempt failed.
C30_Witness ==
    /\ script = <<>> /\ currentSettings.reverbEnabled /\ 1 \notin blocked
    /\ renders = 1 /\ pending # <<>> /\ pending[1].stage = "init" /\ pending[1].id = 1
    /\ audioGraphRegistry = <<>>

\* C31: a step in which setPlaybackRate(id, v) is applied to a tracked id leaves
\* the element's playbackRate and the settings' playbackRate both equal to v,
\* unclamped; setPreservesPitch and setMuted leave the element's property and
\* the settings field both equal to the given boolean.
C31_RateAndFlagsStoredAsGiven ==
    [][\A r \in PropReqs :
          Applied(r) =>
             LET e == mediaRegistry[r.id]
             IN /\ r.action = "setPlaybackRate" =>
                      /\ elProps'[e].playbackRate = r.value
                      /\ currentSettings'.playbackRate = r.value
                /\ r.action = "setPreservesPitch" =>
                      /\ elProps'[e].preservesPitch = r.flag
                      /\ currentSettings'.preservesPitch = r.flag
                /\ r.action = "setMuted" =>
                      /\ elProps'[e].muted = r.flag
                      /\ currentSettings'.muted = r.flag]_vars

\* C31 witness: a rate above 1, pitch preservation off and muted on, on the
\* element and in the settings, with the last command's write in flight.
C31_Witness ==
    /\ storeQ # <<>> /\ storeQ[Len(storeQ)].op = "set"
    /\ elProps[1].playbackRate = Res + 1 /\ currentSettings.playbackRate = Res + 1
    /\ ~elProps[1].preservesPitch /\ ~currentSettings.preservesPitch
    /\ elProps[1].muted /\ currentSettings.muted

ElementCommands == {"setVolume", "setPlaybackRate", "setPreservesPitch", "setMuted"}

\* C32: a step in which setVolume, setPlaybackRate, setPreservesPitch or
\* setMuted is applied leaves the graph registry (every graph's mix included),
\* the taps, the teardown timers, the constructions in flight and the reverb
\* settings unchanged; a step in which setReverb is applied creates, taps and
\* removes no graph and schedules no removal.
C32_OnlyToggleMakesOrRemovesGraphs ==
    [][\A r \in FrameReqs :
          Applied(r) =>
             /\ r.action \in ElementCommands =>
                   /\ audioGraphRegistry' = audioGraphRegistry
                   /\ tap' = tap /\ timers' = timers /\ pending' = pending
                   /\ currentSettings'.reverb = currentSettings.reverb
                   /\ currentSettings'.reverbEnabled = currentSettings.reverbEnabled
             /\ r.action = "setReverb" =>
                   /\ DOMAIN audioGraphRegistry' = DOMAIN audioGraphRegistry
                   /\ tap' = tap /\ timers' = timers /\ pending' = pending
                   /\ currentSettings'.reverbEnabled = currentSettings.reverbEnabled]_vars

\* C33: the script is injected only by a probe that has failed, and never into
\* a page where an instance is already running.
C33_InjectedOnceAfterFailedProbe ==
    [][instances' > instances =>
          /\ \E i \in 1..Len(polls) : polls[i].stage = "inject"
          /\ instances = 0]_vars

\* C34: every id with an entry in the graph registry has an entry in the media
\* registry.
C34_GraphIdsAreTracked ==
    DOMAIN audioGraphRegistry \subseteq DOMAIN mediaRegistry

\* C35: a getMedia that runs after setReverbEnabled(1, false) has been answered,
\* with no enable in between, reports reverbEnabled = false for id 1, whether or
\* not the teardown timer has fired.
C35_DisabledIsReportedOff ==
    resp.result = "media" =>
        \A k \in 1..Len(resp.media) :
            resp.media[k].id = 1 => ~resp.media[k].reverbEnabled

\* C36: whenever the site's reverbEnabled is false and no teardown timer is
\* pending, the graph registry is empty.
C36_OffMeansNoGraphs ==
    (~currentSettings.reverbEnabled /\ timers = <<>>) => audioGraphRegistry = <<>>

\* C37: once setReverb(1, v) has been answered, in every state in which id 1
\* has a graph that graph's wet mix is v clamped to [0, 1] and equals
\* settings.reverb, whatever the site's reverbEnabled.
C37_MixFollowsSetReverb ==
    (script = <<>> /\ Answered /\ resp = NoResp /\ 1 \in DOMAIN audioGraphRegistry)
    => (Graph(1).reverbMix = Res /\ Graph(1).reverbMix = currentSettings.reverb)

\* C38: an element is tapped at most once: no two graphs are registered for one
\* element, a tapped element is never tapped again, and a step taken while an
\* element is tapped registers no new graph for it and does not replace the
\* registered one, however many constructions for it are in flight.
C38_TappedOnce ==
    /\ [](\A i, j \in DOMAIN audioGraphRegistry : Graph(i).el = Graph(j).el => i = j)
    /\ [][\A e \in Elems :
             tap[e] # "none" =>
                /\ tap'[e] \in {tap[e], "disconnected"}
                /\ \A id \in DOMAIN audioGraphRegistry' :
                      audioGraphRegistry'[id].el = e =>
                         /\ id \in DOMAIN audioGraphRegistry
                         /\ Graph(id).el = e
                         /\ audioGraphRegistry'[id].buf = Graph(id).buf]_vars

\* C38 witness: the element's graph is registered by one construction while
\* another construction for the same element is still waiting for the render.
C38_Witness ==
    /\ 1 \in DOMAIN audioGraphRegistry /\ Graph(1).el = 1 /\ tap[1] = "connected"
    /\ \E i \in 1..Len(pending) : pending[i].el = 1 /\ pending[i].stage = "init"

====
